---- MODULE Spec2Model ----
(***************************************************************************)
(* Model of src/src/composition.rs: the From::from body generated by       *)
(* impl_from_carry_context!($source, $target, $variant).                   *)
(*                                                                         *)
(* Three instantiations of the macro are run one after the other on the    *)
(* same error value:                                                       *)
(*   1. impl_from_carry_context!(Inner, Outer, OuterError::Inner);         *)
(*   2. impl_from_carry_context!(Outer, Top,   TopError::Outer);           *)
(*      applied to the Outer that 1 returned;                              *)
(*   3. impl_from_carry_context!(Inner, Top, inner_to_top);                *)
(*      applied to the original Inner, where inner_to_top is the function  *)
(*      |i| TopError::Outer(Outer::Base(OuterError::Inner(i))).            *)
(* Every statement of the generated function is one action.                *)
(***************************************************************************)
EXTENDS Integers, Sequences, FiniteSets

\* ----------------------------------------------------------------- bounds
\* Longest context chain of an input.
MaxDepth == 3

\* ------------------------------------------------------------ data model
\* Raw failures of the innermost error enum (InnerError's variants).
RawFailures == {[raw |-> "Dummy"], [raw |-> "Other"]}

\* Context annotations; opaque to the conversion.
Annotations == {"at step A", "at step B"}

\* The context enriched types the instantiations connect.
Types == {"Inner", "Outer", "Top"}

\* ($source, $target, $variant) of each instantiation.  A $variant is a path
\* that is called with one argument: a sequence of constructors applied first
\* to last, where a type name stands for that type's Base constructor and any
\* other name for an enum variant.
Instantiations == <<
    [source |-> "Inner", target |-> "Outer", variant |-> <<"OuterError::Inner">>],
    [source |-> "Outer", target |-> "Top", variant |-> <<"TopError::Outer">>],
    [source |-> "Inner", target |-> "Top",
     variant |-> <<"OuterError::Inner", "Outer", "TopError::Outer">>] >>

\* $ty::Base(x)
Base(ty, x) == [tag |-> "Base", ty |-> ty, val |-> x]

\* $ty::Context { context, error: Box::new(error) }
Context(ty, context, error) ==
    [tag |-> "Context", ty |-> ty, context |-> context, error |-> error]

\* A variant constructor applied to its payload: $variant(arg)
Variant(path, arg) == [variant |-> path, arg |-> arg]

\* $variant(arg): the call of a path on its argument.
RECURSIVE Call(_, _)
Call(fn, arg) ==
    IF fn = <<>> THEN arg
    ELSE Call(Tail(fn), IF Head(fn) \in Types THEN Base(Head(fn), arg)
                        ELSE Variant(Head(fn), arg))

\* All chains of type ty with exactly n Context nodes.
RECURSIVE ChainsOfDepth(_, _)
ChainsOfDepth(ty, n) ==
    IF n = 0 THEN {Base(ty, r) : r \in RawFailures}
    ELSE {Context(ty, c, e) : c \in Annotations, e \in ChainsOfDepth(ty, n - 1)}

Chains(ty) == UNION {ChainsOfDepth(ty, n) : n \in 0..MaxDepth}

\* ------------------------------------------------- observers of a chain
\* Context annotations read from the root to the Base.
RECURSIVE AnnotationsOf(_)
AnnotationsOf(e) ==
    IF e.tag = "Base" THEN <<>> ELSE <<e.context>> \o AnnotationsOf(e.error)

\* The terminal Base node.
RECURSIVE TerminalOf(_)
TerminalOf(e) == IF e.tag = "Base" THEN e ELSE TerminalOf(e.error)

\* Number of Context nodes.
Depth(e) == Len(AnnotationsOf(e))

\* ------------------------------------------------ statements of from()
\* Mutation: the annotation is inserted at the front of the vector.
PushFront(vec, context) == <<context>> \o vec

\* contexts.push(context)
Push(vec, context) == Append(vec, context)

\* Mutation: the raw base value is handed on without being re-wrapped.
RewrapRaw(source, x) == x

\* let inner = $source::Base(inner);
Rewrap(source, x) == Base(source, x)

\* Mutation: $variant is not applied.
EmbedNoVariant(target, variant, inner) == Base(target, inner)

\* let mut x = $target::Base($variant(inner));
Embed(target, variant, inner) == Base(target, Call(variant, inner))

\* Mutation: the iterator misses the last recorded annotation.
IntoIterRevShort(vec) == IF Len(vec) = 0 THEN 0 ELSE Len(vec) - 1

\* contexts.into_iter().rev(): the back cursor of the consuming iterator.
IntoIterRev(vec) == Len(vec)

\* Mutation: the iterator is not reversed.
NextFront(vec, back) == vec[Len(vec) - back + 1]

\* The item next() of the reversed iterator yields with `back` items left.
NextBack(vec, back) == vec[back]

\* Mutation: the new node boxes the base node instead of the current result.
WrapFlat(target, ctx, x) == Context(target, ctx, TerminalOf(x))

\* x = $target::Context { context: ctx, error: Box::new(x) }
Wrap(target, ctx, x) == Context(target, ctx, x)

\* ------------------------------------------------------------------ state
VARIABLES
    stage,      \* the instantiation that runs: an index of Instantiations
    pc,         \* position in from(): "unwind", "rewrap", "embed", "rewind",
                \* "return", "done"
    value,      \* the parameter `mut value: $source`
    contexts,   \* `let mut contexts = vec![]`
    inner,      \* `inner`: the loop's break value, then its shadowing rebinding
    x,          \* `let mut x`
    back,       \* items the reversed iterator has left
    results,    \* the values the calls returned so far, in call order
    input,      \* the caller's error value, of type Inner
    arg,        \* history: the argument the running call received
    unwinds,    \* history: Context arms the unwind loop took in this call
    rewinds,    \* history: bodies of the for loop run in this call
    embedded    \* history: arguments handed to $variant in this call

vars == <<stage, pc, value, contexts, inner, x, back, results, input, arg,
          unwinds, rewinds, embedded>>

\* A binding that is not initialised yet.
None == [none |-> TRUE]

source == Instantiations[stage].source
target == Instantiations[stage].target
variant == Instantiations[stage].variant

\* The value the last finished call returned.
result == results[Len(results)]

\* Entry of from(value): `let mut contexts = vec![]` is done, the loop is next.
Enter(v) ==
    /\ value' = v
    /\ arg' = v
    /\ contexts' = <<>>
    /\ inner' = None
    /\ x' = None
    /\ back' = 0
    /\ unwinds' = 0
    /\ rewinds' = 0
    /\ embedded' = <<>>
    /\ pc' = "unwind"

\* The caller holds any finite Inner chain and calls Outer::from on it.
Init ==
    /\ stage = 1
    /\ pc = "unwind"
    /\ input \in Chains(Instantiations[1].source)
    /\ value = input
    /\ arg = input
    /\ contexts = <<>>
    /\ inner = None
    /\ x = None
    /\ back = 0
    /\ results = <<>>
    /\ unwinds = 0
    /\ rewinds = 0
    /\ embedded = <<>>

\* $source::Context { context, error } => { contexts.push(context); value = *error; }
UnwindContext ==
    /\ pc = "unwind"
    /\ value.tag = "Context"
    /\ contexts' = Push(contexts, value.context)
    /\ value' = value.error
    /\ unwinds' = unwinds + 1
    /\ UNCHANGED <<stage, pc, inner, x, back, results, input, arg, rewinds, embedded>>

\* Mutation: the Base arm does not break out of the loop.
UnwindBaseSpin ==
    /\ pc = "unwind"
    /\ value.tag = "Base"
    /\ UNCHANGED vars

\* $source::Base(x) => break x
UnwindBase ==
    /\ pc = "unwind"
    /\ value.tag = "Base"
    /\ inner' = value.val
    /\ pc' = "rewrap"
    /\ UNCHANGED <<stage, value, contexts, x, back, results, input, arg,
                   unwinds, rewinds, embedded>>

\* let inner = $source::Base(inner);
RewrapInner ==
    /\ pc = "rewrap"
    /\ inner' = Rewrap(source, inner)
    /\ pc' = "embed"
    /\ UNCHANGED <<stage, value, contexts, x, back, results, input, arg,
                   unwinds, rewinds, embedded>>

\* let mut x = $target::Base($variant(inner)); then the for loop's iterator
EmbedBase ==
    /\ pc = "embed"
    /\ x' = Embed(target, variant, inner)
    /\ embedded' = Append(embedded, inner)
    /\ back' = IntoIterRev(contexts)
    /\ pc' = "rewind"
    /\ UNCHANGED <<stage, value, contexts, inner, results, input, arg,
                   unwinds, rewinds>>

\* Mutation: every rewind step applies $variant again to the current result.
RewindStepReembed ==
    /\ pc = "rewind"
    /\ back > 0
    /\ x' = Wrap(target, NextBack(contexts, back), Embed(target, variant, x))
    /\ embedded' = Append(embedded, x)
    /\ back' = back - 1
    /\ rewinds' = rewinds + 1
    /\ UNCHANGED <<stage, pc, value, contexts, inner, results, input, arg, unwinds>>

\* for ctx in contexts.into_iter().rev() { x = $target::Context { .. } }
RewindStep ==
    /\ pc = "rewind"
    /\ back > 0
    /\ x' = Wrap(target, NextBack(contexts, back), x)
    /\ back' = back - 1
    /\ rewinds' = rewinds + 1
    /\ UNCHANGED <<stage, pc, value, contexts, inner, results, input, arg,
                   unwinds, embedded>>

\* the reversed iterator is exhausted
RewindExit ==
    /\ pc = "rewind"
    /\ back <= 0
    /\ pc' = "return"
    /\ UNCHANGED <<stage, value, contexts, inner, x, back, results, input, arg,
                   unwinds, rewinds, embedded>>

\* x  (the function's value)
Return ==
    /\ pc = "return"
    /\ results' = Append(results, x)
    /\ pc' = "done"
    /\ UNCHANGED <<stage, value, contexts, inner, x, back, input, arg,
                   unwinds, rewinds, embedded>>

\* The caller converts the Outer it got on to Top: Top::from(outer).
CallOnward ==
    /\ pc = "done"
    /\ stage = 1
    /\ stage' = 2
    /\ Enter(result)
    /\ UNCHANGED <<results, input>>

\* The caller converts the same Inner to Top in one step (instantiation 3).
CallDirect ==
    /\ pc = "done"
    /\ stage = 2
    /\ stage' = 3
    /\ Enter(input)
    /\ UNCHANGED <<results, input>>

Next ==
    \/ UnwindContext
    \/ UnwindBase
    \/ RewrapInner
    \/ EmbedBase
    \/ RewindStep
    \/ RewindExit
    \/ Return
    \/ CallOnward
    \/ CallDirect

Spec == Init /\ [][Next]_vars

\* from() is straight-line synchronous code: a call that has a next statement
\* runs it.
FairSpec == Spec /\ WF_vars(Next)

\* ------------------------------------------------------------- properties
Done == pc = "done"

\* Number of positions of seq that hold a.
Count(seq, a) == Cardinality({i \in DOMAIN seq : seq[i] = a})

\* The types of the nodes of a chain.
RECURSIVE TypesOf(_)
TypesOf(e) == IF e.tag = "Base" THEN {e.ty} ELSE {e.ty} \cup TypesOf(e.error)

Dummy == [raw |-> "Dummy"]
Other == [raw |-> "Other"]

\* C1 (order preservation): when a call has returned, the annotations of the
\* returned chain read from the root to the Base are, position by position,
\* the annotations of the argument read from the root to the Base.
OrderPreserved == Done => AnnotationsOf(result) = AnnotationsOf(arg)

OrderPreservedWitness ==
    /\ Done
    /\ stage = 1
    /\ arg = Context("Inner", "at step A",
                     Context("Inner", "at step B", Base("Inner", Dummy)))
    /\ AnnotationsOf(result) = <<"at step A", "at step B">>

\* C2 (annotation-count preservation): the returned chain has exactly as many
\* Context nodes as the argument, and every annotation value occurs in it as
\* often as in the argument (none dropped, none duplicated).
CountPreserved ==
    Done => /\ Depth(result) = Depth(arg)
            /\ \A a \in Annotations :
                 Count(AnnotationsOf(result), a) = Count(AnnotationsOf(arg), a)

CountPreservedWitness ==
    /\ Done
    /\ Depth(arg) >= 2
    /\ Depth(result) = Depth(arg)
    /\ Count(AnnotationsOf(arg), "at step A") = 2

Terminates ==
    /\ <>(Done /\ stage = 3 /\ Len(results) = 3)
    /\ [](pc = "rewrap" => (unwinds = Depth(arg) /\ value.tag = "Base"))
    /\ [](Done => (/\ unwinds = Depth(arg)
                   /\ rewinds = Depth(arg)
                   /\ Len(results) = stage))

TerminatesWitness ==
    /\ Done
    /\ stage = 1
    /\ Depth(arg) = 2
    /\ unwinds = 2
    /\ rewinds = 2
    /\ results = <<x>>

\* C7 (unwind loop invariant): at the head of every iteration of the unwind
\* loop, contexts followed by the annotations of the remaining value is the
\* annotation sequence of the argument, and the remaining value ends in the
\* argument's terminal node; after the loop contexts holds all annotations,
\* outermost first, and inner is the argument's base value.
UnwindInvariant ==
    /\ pc = "unwind" =>
         /\ contexts \o AnnotationsOf(value) = AnnotationsOf(arg)
         /\ TerminalOf(value) = TerminalOf(arg)
    /\ pc = "rewrap" =>
         /\ contexts = AnnotationsOf(arg)
         /\ inner = TerminalOf(arg).val

UnwindInvariantWitness ==
    /\ pc = "rewrap"
    /\ contexts = <<"at step A", "at step B", "at step B">>
    /\ inner = Other

\* C8 (rewind ordering): after j rewind steps the annotations of x are the last
\* j recorded annotations in recorded order and x ends in the base node built
\* before the loop; each step boxes the current result in one new Context node
\* holding the last annotation not yet consumed, and leaves the base node as
\* it was.
RewindOrdering ==
    /\ [](pc \in {"rewind", "return"} =>
            /\ rewinds = Len(contexts) - back
            /\ AnnotationsOf(x) = SubSeq(contexts, back + 1, Len(contexts))
            /\ TerminalOf(x) = Base(target, Call(variant, inner)))
    /\ [][RewindStep => /\ x' = Context(target, contexts[back], x)
                        /\ TerminalOf(x') = TerminalOf(x)]_vars

RewindOrderingWitness ==
    /\ pc = "rewind"
    /\ contexts = <<"at step A", "at step B", "at step A">>
    /\ rewinds = 2
    /\ AnnotationsOf(x) = <<"at step B", "at step A">>

====
